---- MODULE Spec2Model ----
(***************************************************************************)
(* Decision tree learning (treehe1.py): build_tree / build_tree_1 grow a   *)
(* tree of TreeNode objects from a table of discrete examples, classify    *)
(* walks such a tree for one instance.                                     *)
(*                                                                         *)
(* Python objects are modelled as a heap: TreeNode number i is heap[i].    *)
(* The call stack of the recursive builder is the sequence `stack`, one    *)
(* frame per active build_tree_1 call.  Feature indices are 0-based as in  *)
(* the source; an example is a sequence whose last element is the class.   *)
(* Python floats are modelled as exact reals (see entropy).  Iteration     *)
(* over a Python set has no defined order, so it is a nondeterministic     *)
(* choice; iteration over the features dict is in insertion order, which   *)
(* is ascending feature index.                                             *)
(***************************************************************************)
EXTENDS Integers, Sequences, FiniteSets, TLC

VARIABLES examples, heap, reached, stack, result, pc, exc, called, instance, walk, label

vars == <<examples, heap, reached, stack, result, pc, exc, called, instance, walk, label>>

(* ------------------------------ bounds --------------------------------- *)
NumFeatures == 2
MaxExamples == 3
MaxNodes == 2
WideClasses == 4
WideExamples == 4

(* ------------------------------- data ---------------------------------- *)
(* Every attribute of the program's data set takes two values and the     *)
(* class is one of two labels (Yes, No); the initial 2.0 of best_feature   *)
(* is written for that case ("max entropy = 1.0").  Tables with more class *)
(* labels are the subject of SpecWide.                                     *)
Values == {1, 2}
Classes == {1, 2}

(* ------------------------- Python values ------------------------------- *)
None == 0
NoLabel == None
EmptyDict == [k \in {} |-> None]

SetOf(seq) == {seq[i] : i \in DOMAIN seq}

Min(S) == CHOOSE x \in S : \A y \in S : x <= y

RECURSIVE Pow(_, _)
Pow(b, e) == IF e = 0 THEN 1 ELSE b * Pow(b, e - 1)

RECURSIVE Product(_)
Product(g) ==
    IF DOMAIN g = {} THEN 1
    ELSE LET x == CHOOSE x \in DOMAIN g : TRUE
         IN g[x] * Product([y \in DOMAIN g \ {x} |-> g[y]])

(* ------------------------------ TreeNode ------------------------------- *)
TreeNode(majClass) ==
    [split_feature |-> -1, children |-> EmptyDict, majority_class |-> majClass]

(* d[k] = v on a Python dict *)
DictSet(d, k, v) == [x \in DOMAIN d \cup {k} |-> IF x = k THEN v ELSE d[x]]

(* d.pop(k) on a copy of d, k a key of d *)
DictPop(d, k) == [x \in DOMAIN d \ {k} |-> d[x]]

(* --------------------------- pure functions ---------------------------- *)
(* classes = [example[-1] for example in examples] *)
classes(ex) == [i \in DOMAIN ex |-> ex[i][Len(ex[i])]]

(* classes.count(c) *)
count(cl, c) == Cardinality({i \in DOMAIN cl : cl[i] = c})

(* faulty variant: a default label instead of the error on an empty list *)
majority_class_default(ex) ==
    LET cl == classes(ex)
    IN IF ex = <<>> THEN {1}
       ELSE {c \in SetOf(cl) : \A d \in SetOf(cl) : count(cl, c) >= count(cl, d)}

(* faulty variant: min instead of max *)
majority_class_min(ex) ==
    LET cl == classes(ex)
    IN {c \in SetOf(cl) : \A d \in SetOf(cl) : count(cl, c) <= count(cl, d)}

(* max(set(classes), key = classes.count): the first label of maximal      *)
(* count in the iteration order of the set, which is not defined: every    *)
(* label of maximal count is a possible result.  The empty set of results  *)
(* stands for the ValueError max() raises on an empty sequence.            *)
majority_class(ex) ==
    LET cl == classes(ex)
    IN {c \in SetOf(cl) : \A d \in SetOf(cl) : count(cl, c) >= count(cl, d)}

same_class(ex) == Cardinality(SetOf(classes(ex))) = 1

(* faulty variant: != instead of == *)
filter_examples_ne(ex, feature_index, feature_value) ==
    SelectSeq(ex, LAMBDA example : example[feature_index + 1] # feature_value)

filter_examples(ex, feature_index, feature_value) ==
    SelectSeq(ex, LAMBDA example : example[feature_index + 1] = feature_value)

(* A float is modelled as the exact real log2(num / den) / len (0.0 when   *)
(* len = 0).  entropy(S) = - SUM_c (n_c/n) log2 (n_c/n)                    *)
(*                       = log2( n^n / PROD_c n_c^n_c ) / n.               *)
entropy(ex) ==
    LET cl == classes(ex)
        class_counts == [c \in SetOf(cl) |-> count(cl, c)]
        class_sum == Len(cl)
    IN [num |-> Pow(class_sum, class_sum),
        den |-> Product([c \in DOMAIN class_counts |->
                            Pow(class_counts[c], class_counts[c])]),
        len |-> class_sum]

(* se = SUM_v (len(S_v)/len(S)) * entropy(S_v)                             *)
(*    = log2( PROD_v num(S_v) / PROD_v den(S_v) ) / len(S).                *)
split_entropy(feature_index, features, ex) ==
    LET H == [v \in features[feature_index] |->
                 entropy(filter_examples(ex, feature_index, v))]
    IN [num |-> Product([v \in DOMAIN H |-> H[v].num]),
        den |-> Product([v \in DOMAIN H |-> H[v].den]),
        len |-> Len(ex)]

(* the float 2.0 on the scale of a split entropy over n examples *)
Float2(n) == [num |-> Pow(4, n), den |-> 1, len |-> n]

(* a < b for two floats of the same len *)
FloatLess(a, b) == a.num * b.den < b.num * a.den

RECURSIVE best_feature_loop(_, _, _, _, _)
best_feature_loop(todo, features, ex, best_entropy, best_feature_index) ==
    IF todo = {} THEN best_feature_index
    ELSE LET feature_index == Min(todo)
             se == split_entropy(feature_index, features, ex)
         IN IF FloatLess(se, best_entropy)
            THEN best_feature_loop(todo \ {feature_index}, features, ex, se, feature_index)
            ELSE best_feature_loop(todo \ {feature_index}, features, ex,
                                   best_entropy, best_feature_index)

best_feature(features, ex) ==
    best_feature_loop(DOMAIN features, features, ex, Float2(Len(ex)), -1)

(* features[i] = set(example[i] for example in examples), i in range(len(examples[0]) - 1) *)
feature_domains(ex) ==
    [feature_index \in 0..(Len(ex[1]) - 2) |->
        {ex[i][feature_index + 1] : i \in DOMAIN ex}]

(* -------------------------- initial states ----------------------------- *)
(* rows of n feature values followed by a class label *)
Rows(n, vals, cls) ==
    {r \in [1..(n + 1) -> vals \cup cls] :
        /\ \A i \in 1..n : r[i] \in vals
        /\ r[n + 1] \in cls}

(* build_tree and its helpers read the list of examples only through       *)
(* counts, sets and order-preserving filters.  The order of the rows can    *)
(* change the iteration order of a set, which is a nondeterministic choice  *)
(* here, and nothing else: one table stands for all its reorderings, the    *)
(* one whose rows are in nondecreasing order of RowKey.                     *)
KeyBase == Cardinality(Values \cup Classes \cup (1..WideClasses)) + 1

RECURSIVE RowKey(_)
RowKey(r) == IF r = <<>> THEN 0 ELSE Head(r) + KeyBase * RowKey(Tail(r))

Sorted(t) == \A i \in 1..(Len(t) - 1) : RowKey(t[i]) <= RowKey(t[i + 1])

(* example tables of arity n with at most m rows *)
Tables(n, vals, cls, m) ==
    UNION {{t \in [1..k -> Rows(n, vals, cls)] : Sorted(t)} : k \in 0..m}

InitWith(tables) ==
    /\ examples \in tables
    /\ heap = <<>>
    /\ reached = <<>>
    /\ stack = <<>>
    /\ result = None
    /\ pc = "start"
    /\ exc = "none"
    /\ called = {}
    /\ instance = <<>>
    /\ walk = <<>>
    /\ label = NoLabel

Init == InitWith(UNION {Tables(n, Values, Classes, MaxExamples) : n \in 0..NumFeatures})

(* ----------------------------- build_tree ------------------------------ *)
Frame(ex, features) ==
    [examples |-> ex, features |-> features, tree_node |-> None,
     todo |-> {}, feature_value |-> 0, line |-> "enter"]

(* faulty variant: without the test for an empty table, examples[0] fails *)
build_tree_noguard ==
    /\ pc = "start"
    /\ IF examples = <<>>
       THEN /\ pc' = "build_raised"
            /\ exc' = "IndexError"
            /\ UNCHANGED <<stack, called, result>>
       ELSE /\ stack' = <<Frame(examples, feature_domains(examples))>>
            /\ pc' = "building"
            /\ called' = called \cup {"feature_domains", "build_tree_1"}
            /\ UNCHANGED <<result, exc>>
    /\ UNCHANGED <<examples, heap, reached, instance, walk, label>>

build_tree ==
    /\ pc = "start"
    /\ IF examples = <<>>
       THEN /\ result' = None
            /\ pc' = "built"
            /\ UNCHANGED <<stack, called>>
       ELSE /\ stack' = <<Frame(examples, feature_domains(examples))>>
            /\ pc' = "building"
            /\ called' = called \cup {"feature_domains", "build_tree_1"}
            /\ UNCHANGED result
    /\ UNCHANGED <<examples, heap, reached, exc, instance, walk, label>>

Top == stack[Len(stack)]

SetTop(f) == [stack EXCEPT ![Len(stack)] = f]

Raise(e) ==
    /\ pc' = "build_raised"
    /\ exc' = e
    /\ stack' = <<>>

(* build_tree_1, lines 31-42: from the call to the head of the for loop *)
build_tree_1 ==
    /\ pc = "building"
    /\ Top.line = "enter"
    /\ LET ex == Top.examples
           features == Top.features
           id == Len(heap) + 1
       IN IF majority_class(ex) = {}
          THEN /\ Raise("ValueError")
               /\ called' = called \cup {"majority_class"}
               /\ UNCHANGED <<heap, reached>>
          ELSE \E m \in majority_class(ex) :
               /\ reached' = Append(reached, [examples |-> ex, features |-> features])
               /\ IF same_class(ex) \/ DOMAIN features = {}
                  THEN /\ heap' = Append(heap, TreeNode(m))
                       /\ stack' = SetTop([Top EXCEPT !.tree_node = id, !.line = "return"])
                       /\ called' = called \cup {"majority_class", "same_class"}
                       /\ UNCHANGED <<pc, exc>>
                  ELSE LET best_feature_index == best_feature(features, ex)
                       IN /\ heap' = Append(heap, [TreeNode(m) EXCEPT
                                        !.split_feature = best_feature_index])
                          /\ called' = called \cup {"majority_class", "same_class",
                                         "best_feature", "split_entropy", "entropy",
                                         "filter_examples"}
                          /\ IF best_feature_index \notin DOMAIN features
                             THEN Raise("KeyError")
                             ELSE /\ stack' = SetTop([Top EXCEPT
                                        !.tree_node = id,
                                        !.todo = features[best_feature_index],
                                        !.line = "loop"])
                                  /\ UNCHANGED <<pc, exc>>
    /\ UNCHANGED <<examples, result, instance, walk, label>>

(* faulty variant: the chosen feature is not removed *)
remaining_features_nopop(f) == f.features

(* remaining_features = features.copy(); remaining_features.pop(best_feature_index) *)
remaining_features(f) == DictPop(f.features, heap[f.tree_node].split_feature)

(* faulty variant: an empty partition gets the empty marker and no call *)
build_child_skip_empty ==
    /\ pc = "building"
    /\ Top.line = "loop"
    /\ \E feature_value \in Top.todo :
         LET split_examples == filter_examples(Top.examples,
                                   heap[Top.tree_node].split_feature, feature_value)
             advanced == SetTop([Top EXCEPT !.todo = Top.todo \ {feature_value},
                                            !.feature_value = feature_value])
         IN IF split_examples = <<>>
            THEN /\ stack' = advanced
                 /\ heap' = [heap EXCEPT ![Top.tree_node].children =
                                DictSet(@, feature_value, None)]
            ELSE /\ stack' = Append(advanced,
                                    Frame(split_examples, remaining_features(Top)))
                 /\ UNCHANGED heap
    /\ called' = called \cup {"filter_examples", "build_tree_1"}
    /\ UNCHANGED <<examples, reached, result, pc, exc, instance, walk, label>>

(* lines 43-45: one iteration of the for loop up to the recursive call *)
build_child ==
    /\ pc = "building"
    /\ Top.line = "loop"
    /\ \E feature_value \in Top.todo :
         LET split_examples == filter_examples(Top.examples,
                                   heap[Top.tree_node].split_feature, feature_value)
         IN stack' = Append(SetTop([Top EXCEPT !.todo = Top.todo \ {feature_value},
                                               !.feature_value = feature_value]),
                            Frame(split_examples, remaining_features(Top)))
    /\ called' = called \cup {"filter_examples", "build_tree_1"}
    /\ UNCHANGED <<examples, heap, reached, result, pc, exc, instance, walk, label>>

(* return tree_node (lines 34, 37, 46); the caller stores it at line 45 or 28 *)
build_return ==
    /\ pc = "building"
    /\ \/ Top.line = "return"
       \/ Top.line = "loop" /\ Top.todo = {}
    /\ IF Len(stack) = 1
       THEN /\ result' = Top.tree_node
            /\ pc' = "built"
            /\ stack' = <<>>
            /\ UNCHANGED heap
       ELSE LET caller == stack[Len(stack) - 1]
            IN /\ heap' = [heap EXCEPT ![caller.tree_node].children =
                              DictSet(@, caller.feature_value, Top.tree_node)]
               /\ stack' = SubSeq(stack, 1, Len(stack) - 1)
               /\ UNCHANGED <<result, pc>>
    /\ UNCHANGED <<examples, reached, exc, called, instance, walk, label>>

(* ------------------------------ classify ------------------------------- *)
InstanceLen == IF examples = <<>> THEN NumFeatures ELSE Len(examples[1]) - 1

(* a caller invokes classify(tree, instance) on a built tree *)
classify_call ==
    /\ pc = "built"
    /\ result # None
    /\ instance' \in [1..InstanceLen -> Values]
    /\ walk' = <<result>>
    /\ pc' = "classifying"
    /\ UNCHANGED <<examples, heap, reached, stack, result, exc, called, label>>

(* faulty variant: a missing key falls back to the majority class *)
classify_get ==
    /\ pc = "classifying"
    /\ LET tree_node == heap[walk[Len(walk)]]
           key == instance[tree_node.split_feature + 1]
       IN IF tree_node.split_feature = -1
          THEN /\ label' = tree_node.majority_class
               /\ pc' = "classified"
               /\ UNCHANGED <<walk, exc>>
          ELSE IF key \in DOMAIN tree_node.children /\ tree_node.children[key] # None
          THEN /\ walk' = Append(walk, tree_node.children[key])
               /\ UNCHANGED <<pc, exc, label>>
          ELSE /\ label' = tree_node.majority_class
               /\ pc' = "classified"
               /\ UNCHANGED <<walk, exc>>
    /\ UNCHANGED <<examples, heap, reached, stack, result, called, instance>>

(* faulty variant: the empty marker is returned instead of the majority class *)
classify_no_fallback ==
    /\ pc = "classifying"
    /\ LET tree_node == heap[walk[Len(walk)]]
           key == instance[tree_node.split_feature + 1]
       IN IF tree_node.split_feature = -1
          THEN /\ label' = tree_node.majority_class
               /\ pc' = "classified"
               /\ UNCHANGED <<walk, exc>>
          ELSE IF key \notin DOMAIN tree_node.children
          THEN /\ pc' = "classify_raised"
               /\ exc' = "KeyError"
               /\ UNCHANGED <<walk, label>>
          ELSE IF tree_node.children[key] # None
          THEN /\ walk' = Append(walk, tree_node.children[key])
               /\ UNCHANGED <<pc, exc, label>>
          ELSE /\ label' = NoLabel
               /\ pc' = "classified"
               /\ UNCHANGED <<walk, exc>>
    /\ UNCHANGED <<examples, heap, reached, stack, result, called, instance>>

(* one activation of classify on the node at the end of the walk *)
classify ==
    /\ pc = "classifying"
    /\ LET tree_node == heap[walk[Len(walk)]]
           key == instance[tree_node.split_feature + 1]
       IN IF tree_node.split_feature = -1
          THEN /\ label' = tree_node.majority_class
               /\ pc' = "classified"
               /\ UNCHANGED <<walk, exc>>
          ELSE IF key \notin DOMAIN tree_node.children
          THEN /\ pc' = "classify_raised"
               /\ exc' = "KeyError"
               /\ UNCHANGED <<walk, label>>
          ELSE IF tree_node.children[key] # None
          THEN /\ walk' = Append(walk, tree_node.children[key])
               /\ UNCHANGED <<pc, exc, label>>
          ELSE /\ label' = tree_node.majority_class
               /\ pc' = "classified"
               /\ UNCHANGED <<walk, exc>>
    /\ UNCHANGED <<examples, heap, reached, stack, result, called, instance>>

Next == build_tree \/ build_tree_1 \/ build_child \/ build_return \/ classify_call \/ classify

Spec == Init /\ [][Next]_vars

(* ------------------- tables with many class labels --------------------- *)
InitWide == InitWith(Tables(1, Values, 1..WideClasses, WideExamples))

SpecWide == InitWide /\ [][Next]_vars

(* ---------------- classify on trees a caller hands in ------------------ *)
(* TreeNode objects are plain mutable records, so a caller can hand any    *)
(* tree to classify: leaves as the constructor makes them, internal nodes  *)
(* whose children map some values to None or to a later node of the heap.  *)
NodeShapes(i, n) ==
    {TreeNode(c) : c \in Classes}
    \cup {[split_feature |-> f, children |-> ch, majority_class |-> c] :
            f \in 0..(NumFeatures - 1),
            ch \in UNION {[D -> {None} \cup (i + 1)..n] : D \in SUBSET Values},
            c \in Classes}

RECURSIVE Heaps(_, _)
Heaps(i, n) ==
    IF i > n THEN {<<>>}
    ELSE {<<node>> \o rest : node \in NodeShapes(i, n), rest \in Heaps(i + 1, n)}

(* a tree: every node but the root is the child of exactly one entry *)
ProperTree(h) ==
    \A j \in 2..Len(h) :
        Cardinality({<<i, k>> \in (1..Len(h)) \X Values :
                        k \in DOMAIN h[i].children /\ h[i].children[k] = j}) = 1

TreeHeaps(n) == {h \in Heaps(1, n) : ProperTree(h)}

InitClassify ==
    /\ examples = <<>>
    /\ heap \in UNION {TreeHeaps(n) : n \in 1..MaxNodes}
    /\ reached = <<>>
    /\ stack = <<>>
    /\ result = 1
    /\ pc = "built"
    /\ exc = "none"
    /\ called = {}
    /\ instance = <<>>
    /\ walk = <<>>
    /\ label = NoLabel

NextClassify == classify_call \/ classify

SpecClassify == InitClassify /\ [][NextClassify]_vars

(* ============================== claims ================================= *)
NumFeat == Len(examples[1]) - 1

Built == pc \in {"built", "classifying", "classified", "classify_raised"} /\ result # None

Internal(n) == heap[n].split_feature # -1

(* the values feature f takes among the examples that reached node n *)
LiveDomain(n, f) == {reached[n].examples[i][f + 1] : i \in DOMAIN reached[n].examples}

(* C1: during buildTree an empty partition leads to no recursive call, so  *)
(* build_tree_1 is never invoked with an empty example list and the build  *)
(* does not fail.                                                          *)
C1_NoEmptyBuild ==
    /\ \A i \in DOMAIN stack : stack[i].examples # <<>>
    /\ pc # "build_raised"

(* C2: an activation of classify fails with a LookupError (KeyError)       *)
(* exactly when its node is internal and the child mapping has no key      *)
(* equal to instance[split_feature]; then no label is returned and the     *)
(* tree is unchanged; otherwise it recurses or returns a label, without    *)
(* error.                                                                  *)
MissingKey(n) ==
    /\ Internal(n)
    /\ instance[heap[n].split_feature + 1] \notin DOMAIN heap[n].children

C2_LookupError ==
    [][pc = "classifying" =>
          /\ heap' = heap
          /\ pc' \in {"classifying", "classified", "classify_raised"}
          /\ (pc' = "classify_raised") <=> MissingKey(walk[Len(walk)])
          /\ pc' = "classify_raised" => label' = NoLabel /\ exc' = "KeyError"
          /\ pc' = "classified" => label' \in Classes /\ exc' = "none"
          /\ pc' = "classifying" => label' = NoLabel /\ exc' = "none"]_vars

C2_Witness ==
    /\ pc = "classify_raised"
    /\ Len(walk) = 2
    /\ MissingKey(walk[2])
    /\ label = NoLabel

(* C3: when no two examples have the same feature values and different     *)
(* classes and buildTree returned a tree, classifying the feature values   *)
(* of a training example yields that example's class, without LookupError. *)
FeatureValues(e) == SubSeq(e, 1, Len(e) - 1)

Consistent ==
    \A i, j \in DOMAIN examples :
        FeatureValues(examples[i]) = FeatureValues(examples[j])
            => examples[i][NumFeat + 1] = examples[j][NumFeat + 1]

C3_TrainingRoundTrip ==
    (Built /\ Consistent /\ pc \in {"classified", "classify_raised"}) =>
        \A i \in DOMAIN examples :
            instance = FeatureValues(examples[i]) =>
                pc = "classified" /\ label = examples[i][NumFeat + 1]

C3_Witness ==
    /\ Built /\ Consistent /\ pc = "classified"
    /\ Len(walk) = 3
    /\ \E i \in DOMAIN examples :
          instance = FeatureValues(examples[i]) /\ label = examples[i][NumFeat + 1]

Restrict(d, S) == [x \in S |-> d[x]]

AncestorSplits(i) == {heap[stack[j].tree_node].split_feature : j \in 1..(i - 1)}

RECURSIVE Depth(_)
Depth(n) ==
    LET kids == {heap[n].children[k] : k \in DOMAIN heap[n].children} \ {None}
    IN IF kids = {} THEN 0
       ELSE LET d == CHOOSE d \in {Depth(c) : c \in kids} :
                        \A c \in kids : Depth(c) <= d
            IN 1 + d

C5_Inv ==
    /\ pc = "building" =>
          /\ Len(stack) <= NumFeat + 1
          /\ \A i \in DOMAIN stack :
                /\ Cardinality(AncestorSplits(i)) = i - 1
                /\ stack[i].features =
                      Restrict(feature_domains(examples),
                               (0..(NumFeat - 1)) \ AncestorSplits(i))
    /\ \A n \in DOMAIN heap :
          /\ Internal(n) => heap[n].split_feature \in DOMAIN reached[n].features
          /\ \A k \in DOMAIN heap[n].children :
                heap[n].children[k] # None =>
                    DOMAIN reached[heap[n].children[k]].features =
                        DOMAIN reached[n].features \ {heap[n].split_feature}
    /\ Built => Depth(result) <= NumFeat

(* an upper bound on the steps a call with r candidate features still takes: *)
(* its entry, its return, and per value of a domain one call of a child      *)
RECURSIVE CallSteps(_)
CallSteps(r) == IF r = 0 THEN 2 ELSE 2 + Cardinality(Values) * (1 + CallSteps(r - 1))

FrameSteps(f) ==
    LET r == Cardinality(DOMAIN f.features)
    IN CASE f.line = "enter" -> CallSteps(r)
         [] f.line = "return" -> 1
         [] f.line = "loop" -> 1 + Cardinality(f.todo) * (1 + CallSteps(r - 1))

RECURSIVE StackSteps(_)
StackSteps(st) ==
    IF st = <<>> THEN 0 ELSE FrameSteps(Head(st)) + StackSteps(Tail(st))

(* termination: every step of the build strictly decreases a natural number *)
C5_FeaturesPerPath ==
    /\ []C5_Inv
    /\ [][pc = "building" => StackSteps(stack') < StackSteps(stack)]_vars

(* a call for a second child still has the feature its finished sibling split on *)
C5_Witness ==
    /\ pc = "building"
    /\ Len(stack) = 2
    /\ stack[2].line = "enter"
    /\ Len(heap) >= 2
    /\ Internal(2)
    /\ heap[2].split_feature \in DOMAIN stack[2].features

(* C6: bestFeature returns a candidate whose splitEntropy is minimal over  *)
(* the candidates, the first such in iteration order, for any number of    *)
(* class labels; it never returns an index that is not a candidate.        *)
Selected(n) ==
    /\ ~ same_class(reached[n].examples)
    /\ DOMAIN reached[n].features # {}

C6_BestFeature ==
    \A n \in DOMAIN heap :
        Selected(n) =>
            LET features == reached[n].features
                ex == reached[n].examples
                b == heap[n].split_feature
            IN /\ b \in DOMAIN features
               /\ \A g \in DOMAIN features :
                     /\ ~ FloatLess(split_entropy(g, features, ex),
                                    split_entropy(b, features, ex))
                     /\ g < b => FloatLess(split_entropy(b, features, ex),
                                           split_entropy(g, features, ex))

(* C7: when the instance's value at an internal node is a key mapped to    *)
(* the empty marker, classify returns that node's majority class and does  *)
(* not recurse; when it is mapped to a child, classify continues in that   *)
(* child and returns what the child's activation returns.                  *)
C7_MajorityFallback ==
    [][(pc = "classifying" /\ Internal(walk[Len(walk)])
            /\ ~ MissingKey(walk[Len(walk)])) =>
          LET tree_node == heap[walk[Len(walk)]]
              child_node == tree_node.children[instance[tree_node.split_feature + 1]]
          IN IF child_node = None
             THEN /\ pc' = "classified"
                  /\ label' = tree_node.majority_class
                  /\ walk' = walk
             ELSE /\ pc' = "classifying"
                  /\ walk' = Append(walk, child_node)
                  /\ label' = label]_vars

C7_Witness ==
    /\ pc = "classified"
    /\ Len(walk) = 2
    /\ Internal(walk[2])
    /\ heap[walk[2]].children[instance[heap[walk[2]].split_feature + 1]] = None
    /\ label = heap[walk[2]].majority_class
    /\ label # heap[walk[1]].majority_class

(* C8: buildTree on zero examples returns None, raises nothing, computes   *)
(* no feature domains and invokes no other routine.                        *)
C8_EmptyInput ==
    (examples = <<>> /\ pc # "start") =>
        /\ pc = "built"
        /\ result = None
        /\ exc = "none"
        /\ called = {}
        /\ heap = <<>>
        /\ stack = <<>>

C8_Witness == examples = <<>> /\ pc = "built" /\ result = None /\ called = {}

(* C9: in a tree buildTree returned, a node is a leaf (split_feature -1,   *)
(* no children) iff its examples share one class or it had no candidate    *)
(* features; every node's majority class is a most frequent class among    *)
(* the examples that reached it.                                           *)
C9_LeafIffStop ==
    Built =>
        \A n \in DOMAIN heap :
            /\ (~ Internal(n)) <=>
                  (same_class(reached[n].examples) \/ DOMAIN reached[n].features = {})
            /\ (heap[n].children = EmptyDict) <=> ~ Internal(n)
            /\ LET cl == classes(reached[n].examples)
               IN /\ heap[n].majority_class \in SetOf(cl)
                  /\ \A d \in SetOf(cl) :
                        count(cl, heap[n].majority_class) >= count(cl, d)

C9_Witness ==
    /\ Built
    /\ \E n \in DOMAIN heap :
          /\ ~ Internal(n)
          /\ ~ same_class(reached[n].examples)
          /\ reached[n].features = EmptyDict
    /\ \E n \in DOMAIN heap :
          /\ ~ Internal(n)
          /\ same_class(reached[n].examples)
          /\ reached[n].features # EmptyDict
    /\ \E n \in DOMAIN heap :
          /\ Internal(n)
          /\ Len(reached[n].examples) = 3
          /\ count(classes(reached[n].examples), heap[n].majority_class) = 2

====
